---- MODULE Spec2Model ----
(***************************************************************************)
(* Hybrid retrieval of chat-with-pdf: PineconeClient.search_similar,       *)
(* PineconeSearchRepository.search / _dense_search / _sparse_search /      *)
(* hybrid_search / _merge_hybrid_results / rerank_results, and ingestion:   *)
(* PineconeClient.store_documents, PineconeSearchRepository.store_documents *)
(* and _upload_vectors_batch; QuestionController.ask_question and          *)
(* DocumentProcessingService.process_documents on top of them.             *)
(*                                                                         *)
(* Scores are floats in the program; here they are integers in hundredths  *)
(* (0.4 is 40, 0.7 is 70), which keeps every comparison the code makes.    *)
(* An Optional[float] is <<>> for None and <<x>> for the number x.         *)
(***************************************************************************)
EXTENDS Integers, Sequences, FiniteSets, TLC

\* ------------------------------------------------------------------ bounds
NumIds == 2
MaxChunks == 2
NumContents == 2
NumFiles == 2
MaxBatches == 2
MaxAttempts == 2
MaxCandidates == 6

\* --------------------------------------------------------------- constants
SCORE_THRESHOLD == 70
MIN_TEXT_LENGTH == 1
MAX_TEXT_LENGTH == 1000
MIN_MAX_RESULTS == 1
MAX_MAX_RESULTS == 20
DEFAULT_TOP_K == 5
DEFAULT_BATCH_SIZE == 100

\* ------------------------------------------------------------------ inputs
Ids == 1..NumIds
ScoreVals == {0, 40, 90}
RerankScoreVals == {65, 70, 75, 90}
TextLens == {0, 7, 1001}
KVals == {0, 1, 2, 21}
NoStrategy == "<None>"
Contents == 1..NumContents
FileNames == 1..NumFiles
\* Sizes of the lists handed to _upload_vectors_batch: around each multiple
\* of the batch size.
VectorCounts ==
    {0, 1} \cup UNION {{k * DEFAULT_BATCH_SIZE - 1, k * DEFAULT_BATCH_SIZE,
                        k * DEFAULT_BATCH_SIZE + 1} : k \in 1..MaxBatches}
StrategyInputs == {NoStrategy, "", "dense", "sparse", "hybrid", "semantic"}
\* Fields of a QuestionRequest: the length of the question once stripped,
\* the strategy name and the document count (None when not given).
QuestionLens == {0, 2, 3, 1001}
MaxDocumentsInputs == {<<>>, <<-1>>, <<0>>, <<1>>, <<21>>}
\* Field values a SearchQuery is constructed with: around every bound.
QueryTextLens == {0, 1, 2, 999, 1000, 1001}
QueryMaxResults == {-1, 0, 1, 2, 5, 19, 20, 21}
QueryStrategies == {"dense", "sparse", "hybrid", "semantic"}

\* ------------------------------------------------------------- data model
None == <<>>

Some(x) == <<x>>

SearchStrategyType == {"dense", "sparse", "hybrid"}

SearchScore(dense, sparse, combined) ==
    [kind |-> "SearchScore", dense_score |-> dense, sparse_score |-> sparse,
     combined_score |-> combined, rerank_score |-> None]

RerankedSearchScore(s) == [kind |-> "RerankedSearchScore", score |-> s]

DocumentChunkFields == {"id", "content", "metadata", "file_name"}

DocumentChunk(id) == [id |-> id]

SearchResult(document, score, strategy) ==
    [document |-> document, score |-> score, strategy_used |-> strategy]

\* SearchQuery with the upper bound of max_results exclusive.
SearchQueryValid_UpperExclusive(text_len, max_results, strategy) ==
    /\ text_len >= MIN_TEXT_LENGTH
    /\ text_len <= MAX_TEXT_LENGTH
    /\ max_results >= MIN_MAX_RESULTS
    /\ max_results < MAX_MAX_RESULTS
    /\ strategy \in SearchStrategyType

\* SearchQuery, lines 35-38: the field constraints pydantic enforces.
SearchQueryValid(text_len, max_results, strategy) ==
    /\ text_len >= MIN_TEXT_LENGTH
    /\ text_len <= MAX_TEXT_LENGTH
    /\ max_results >= MIN_MAX_RESULTS
    /\ max_results <= MAX_MAX_RESULTS
    /\ strategy \in SearchStrategyType

\* ---------------------------------------------------------------- helpers
Min(a, b) == IF a < b THEN a ELSE b

Take(s, n) == SubSeq(s, 1, Min(n, Len(s)))

\* Python truthiness of an Optional[float]: None and 0.0 are false.
Truthy(o) == o # None /\ o[1] # 0

IdsOf(results) == {results[i].document.id : i \in 1..Len(results)}

\* Position of the entry for doc_id in the insertion-ordered dict, 0 if absent.
PosOf(results, doc_id) ==
    IF \E i \in 1..Len(results) : results[i].document.id = doc_id
    THEN CHOOSE i \in 1..Len(results) : results[i].document.id = doc_id
    ELSE 0

\* What an index query may answer: at most top_k matches, distinct ids.
AllMatchLists ==
    UNION {{m \in [1..n -> Ids \X ScoreVals] :
              \A i, j \in 1..n : i # j => m[i][1] # m[j][1]} : n \in 0..NumIds}

MatchLists(top_k) == {m \in AllMatchLists : Len(m) <= top_k}

\* ------------------------------------------------- single-strategy search
\* _dense_search, lines 169-190: one SearchResult per match, in match order.
DenseResults(matches) ==
    [i \in 1..Len(matches) |->
        SearchResult(DocumentChunk(matches[i][1]),
                     SearchScore(Some(matches[i][2]), None, None), "dense")]

\* SparseResults with the label of the dense conversion it was copied from.
SparseResults_LabelledDense(matches) ==
    [i \in 1..Len(matches) |->
        SearchResult(DocumentChunk(matches[i][1]),
                     SearchScore(None, Some(matches[i][2]), None), "dense")]

\* _sparse_search, lines 205-226.
SparseResults(matches) ==
    [i \in 1..Len(matches) |->
        SearchResult(DocumentChunk(matches[i][1]),
                     SearchScore(None, Some(matches[i][2]), None), "sparse")]

\* ------------------------------------------------------------------ merge
\* result.score.dense_score if result.score.dense_score else sparse_score
GetOriginalScore(result) ==
    IF Truthy(result.score.dense_score)
    THEN result.score.dense_score
    ELSE result.score.sparse_score

\* The record stored in results_dict for a candidate (lines 317-327).
MergedRecord(result) ==
    SearchResult(result.document,
                 SearchScore(result.score.dense_score,
                             result.score.sparse_score,
                             GetOriginalScore(result)),
                 "hybrid")

\* MergeStep with the comparison dropped: a later candidate always replaces
\* the recorded one.
MergeStep_LastWins(acc, result) ==
    LET pos == PosOf(acc.results, result.document.id)
    IN  IF acc.error THEN acc
        ELSE IF pos = 0
        THEN [acc EXCEPT !.results = Append(@, MergedRecord(result))]
        ELSE [acc EXCEPT !.results[pos] = MergedRecord(result)]

\* MergeStep collecting into a list instead of a dict keyed by document id.
MergeStep_NoDedup(acc, result) ==
    IF acc.error THEN acc
    ELSE [acc EXCEPT !.results = Append(@, MergedRecord(result))]

\* MergeStep replacing the recorded entry also when the scores are equal.
MergeStep_ReplaceOnTie(acc, result) ==
    LET pos == PosOf(acc.results, result.document.id)
        original_score == GetOriginalScore(result)
    IN  IF acc.error THEN acc
        ELSE IF pos = 0
        THEN [acc EXCEPT !.results = Append(@, MergedRecord(result))]
        ELSE LET recorded == GetOriginalScore(acc.results[pos])
             IN  IF original_score = None \/ recorded = None
                 THEN [acc EXCEPT !.error = TRUE]
                 ELSE IF original_score[1] >= recorded[1]
                 THEN [acc EXCEPT !.results[pos] = MergedRecord(result)]
                 ELSE acc

\* One iteration of the loop of _merge_hybrid_results.  acc.results is the
\* insertion-ordered results_dict; acc.error is set when the comparison
\* original_score > _get_original_score(...) has a None operand (TypeError).
MergeStep(acc, result) ==
    LET pos == PosOf(acc.results, result.document.id)
        original_score == GetOriginalScore(result)
    IN  IF acc.error THEN acc
        ELSE IF pos = 0
        THEN [acc EXCEPT !.results = Append(@, MergedRecord(result))]
        ELSE LET recorded == GetOriginalScore(acc.results[pos])
             IN  IF original_score = None \/ recorded = None
                 THEN [acc EXCEPT !.error = TRUE]
                 ELSE IF original_score[1] > recorded[1]
                 THEN [acc EXCEPT !.results[pos] = MergedRecord(result)]
                 ELSE acc

RECURSIVE MergeLoop(_, _)
MergeLoop(acc, rest) ==
    IF rest = <<>> THEN acc
    ELSE MergeLoop(MergeStep(acc, Head(rest)), Tail(rest))

MergeHybridResults(dense_results, sparse_results) ==
    MergeLoop([results |-> <<>>, error |-> FALSE],
              dense_results \o sparse_results)

\* ----------------------------------------------------------------- rerank
\* What the reranker may answer for a candidate list: top_n rows (all of
\* them when there are fewer), each a distinct candidate with a new score.
RerankRows(results, top_n) ==
    LET n == Min(top_n, Len(results))
    IN  {r \in [1..n -> IdsOf(results) \X RerankScoreVals] :
            \A i, j \in 1..n : i # j => r[i][1] # r[j][1]}

\* Lines 361-371: the documents sent to the reranker read
\* result.document.chunk_index of every candidate.
BuildDocumentsRaises(results) ==
    results # <<>> /\ "chunk_index" \notin DocumentChunkFields

\* Lines 384-405: rows above the threshold, in the reranker's order, each
\* with a RerankedSearchScore and the strategy of the merged record.
RECURSIVE RerankedResults(_, _)
RerankedResults(results, rows) ==
    IF rows = <<>> THEN <<>>
    ELSE LET row == Head(rows)
             original_result == results[PosOf(results, row[1])]
             rest == RerankedResults(results, Tail(rows))
         IN  IF row[2] > SCORE_THRESHOLD
             THEN <<SearchResult(original_result.document,
                                 RerankedSearchScore(row[2]),
                                 original_result.strategy_used)>> \o rest
             ELSE rest

\* top_n=top_k or len(documents)
TopN(results, top_k) == IF top_k # 0 THEN top_k ELSE Len(results)

\* rerank_results handing back the candidates it was given.
RerankOutcomes_ReturnsCandidates(results, top_k) ==
    {[error |-> "", called |-> FALSE, rows |-> <<>>, results |-> results,
      fault |-> ""]}

\* RerankOutcomes without the early return on an empty candidate list.
RerankOutcomes_NoEmptyCheck(results, top_k) ==
    IF BuildDocumentsRaises(results)
    THEN {[error |-> "AttributeError", called |-> FALSE, rows |-> <<>>,
           results |-> <<>>, fault |-> ""]}
    ELSE {[error |-> "", called |-> TRUE, rows |-> rows,
           results |-> RerankedResults(results, rows), fault |-> ""] :
             rows \in RerankRows(results, TopN(results, top_k))}
         \cup {[error |-> "", called |-> TRUE, rows |-> <<>>,
                 results |-> <<>>, fault |-> "inference.rerank"]}

\* rerank_results as a relation: the outcomes it can have on results.
\* called tells whether pc.inference.rerank was invoked, rows what it
\* answered, fault that the call itself raised.
RerankOutcomes(results, top_k) ==
    IF results = <<>>
    THEN {[error |-> "", called |-> FALSE, rows |-> <<>>, results |-> results,
           fault |-> ""]}
    ELSE IF BuildDocumentsRaises(results)
    THEN {[error |-> "AttributeError", called |-> FALSE, rows |-> <<>>,
           results |-> <<>>, fault |-> ""]}
    ELSE {[error |-> "", called |-> TRUE, rows |-> rows,
           results |-> RerankedResults(results, rows), fault |-> ""] :
             rows \in RerankRows(results, TopN(results, top_k))}
         \cup {[error |-> "", called |-> TRUE, rows |-> <<>>,
                 results |-> <<>>, fault |-> "inference.rerank"]}

\* ------------------------------------------------------------ ingestion
\* Chunk ids are strings in the program; here an id is a triple that keeps
\* apart the three ways an id is made.  The empty string is EmptyId.
EmptyId == <<"", 0, 0>>

\* f"{file_name}_{i}"
FileChunkId(file_name, i) == <<"file", file_name, i>>

\* hashlib.md5(doc.content.encode()).hexdigest()
ContentHashId(content) == <<"md5", content, 0>>

\* The id of the i-th record of a list handed to _upload_vectors_batch.
VectorId(i) == <<"vec", 0, i>>

\* A DocumentChunk as ingestion builds it: the declared fields only (a
\* chunk_index keyword is not a field of the model and is dropped).
IngestChunk(id, content, file_name) ==
    [id |-> id, content |-> content, metadata |-> <<"meta", content>>,
     file_name |-> file_name]

\* PineconeClient.store_documents, lines 43-52.
ClientChunks(contents, file_name) ==
    [i \in 1..Len(contents) |->
        IngestChunk(FileChunkId(file_name, i - 1), contents[i], file_name)]

\* Ids a caller of the repository may have given a chunk.
GivenIds == {EmptyId, FileChunkId(1, 0), FileChunkId(1, 1)}

\* The lists of chunks a caller may hand to the repository.
ChunkLists ==
    UNION {[1..n -> {IngestChunk(id, c, 1) : id \in GivenIds, c \in Contents}] :
             n \in 0..MaxChunks}

\* The lists of texts the chunking collaborator may hand to the client.
ContentLists == UNION {[1..n -> Contents] : n \in 0..MaxChunks}

\* _generate_document_id, lines 125-132.
GenerateDocumentId(doc) ==
    IF doc.id # EmptyId THEN doc.id ELSE ContentHashId(doc.content)

\* OpenAITextEncoder.encode_texts, lines 34-46: zip(texts, vectors) over the
\* k vectors the embedding model gave back.
DenseEncoded(documents, k) ==
    [i \in 1..Min(k, Len(documents)) |->
        [text |-> documents[i].content,
         vector |-> <<"dense", documents[i].content>>]]

\* BertTextEncoder.encode_texts, lines 52-74: one sparse vector per text.
SparseEncoded(documents) ==
    [i \in 1..Len(documents) |->
        [text |-> documents[i].content,
         vector |-> <<"sparse", documents[i].content>>]]

\* Length of zip(documents, dense_encoded, sparse_encoded).
ZipLen(documents, dense, sparse) == Min(Len(documents), Min(Len(dense), Len(sparse)))

\* store_documents lines 102-107; read only when chunk_index is a field.
StoredMetadata(doc) ==
    [chunk_text |-> doc.content, file_name |-> doc.file_name,
     chunk_index |-> doc.chunk_index, caller |-> doc.metadata]

\* The loop of store_documents, lines 99-119.  Its first iteration reads
\* doc.chunk_index, which DocumentChunk does not declare.
PrepareVectors(documents, dense, sparse) ==
    LET n == ZipLen(documents, dense, sparse)
    IN  IF n > 0 /\ "chunk_index" \notin DocumentChunkFields
        THEN [error |-> "AttributeError", dense |-> <<>>, sparse |-> <<>>]
        ELSE [error |-> "",
              dense |-> [i \in 1..n |->
                            [id |-> GenerateDocumentId(documents[i]),
                             values |-> dense[i].vector,
                             metadata |-> StoredMetadata(documents[i])]],
              sparse |-> [i \in 1..n |->
                            [id |-> GenerateDocumentId(documents[i]),
                             values |-> sparse[i].vector,
                             metadata |-> StoredMetadata(documents[i])]]]

\* range(0, len(vectors), batch_size) has this many elements.
NumBatches(n, batch_size) == (n + batch_size - 1) \div batch_size

\* Batches with the slice one record short at its end.
Batches_SliceShort(vectors, batch_size) ==
    [k \in 1..NumBatches(Len(vectors), batch_size) |->
        SubSeq(vectors, (k - 1) * batch_size + 1,
               Min(k * batch_size - 1, Len(vectors)))]

\* _upload_vectors_batch lines 141-142: vectors[i : i + batch_size] for
\* i = 0, batch_size, 2 * batch_size, ...
Batches(vectors, batch_size) ==
    [k \in 1..NumBatches(Len(vectors), batch_size) |->
        SubSeq(vectors, (k - 1) * batch_size + 1,
               Min(k * batch_size, Len(vectors)))]

\* The index after upsert(vectors=batch): idempotent by id.
Upsert(index, batch) ==
    {r \in index : \A i \in 1..Len(batch) : batch[i].id # r.id}
        \cup {batch[i] : i \in {j \in 1..Len(batch) :
                 \A l \in (j + 1)..Len(batch) : batch[l].id # batch[j].id}}

RECURSIVE UpsertAll(_, _)
UpsertAll(index, batches) ==
    IF batches = <<>> THEN index
    ELSE UpsertAll(Upsert(index, Head(batches)), Tail(batches))

\* _upload_vectors_batch, lines 141-143, as a relation: every upsert may
\* raise (failed is the number of the batch whose upsert raised, 0 if
\* none); the loop ends there.  made are the upsert calls made, in order.
UploadOutcomes(vectors, index, batch_size) ==
    LET batches == Batches(vectors, batch_size)
    IN  {[made |-> SubSeq(batches, 1, f), failed |-> f,
          index |-> UpsertAll(index, SubSeq(batches, 1, f - 1))] :
            f \in 1..Len(batches)}
        \cup {[made |-> batches, failed |-> 0, index |-> UpsertAll(index, batches)]}

\* ------------------------------------------------------------------ state
VARIABLES
    pc,                \* where the request in progress stands
    req,               \* the request in progress
    current_strategy,  \* PineconeClient.current_strategy
    dense_results,     \* hybrid_search / _dense_search: dense results
    sparse_results,    \* hybrid_search / _sparse_search: sparse results
    merged_results,    \* hybrid_search: merged_results
    rerank_rows,       \* rerank_result.data of the request, <<>> if none
    calls,             \* external calls made for the request, in order
    outcome,           \* what the entry point gave its caller
    fault,             \* the external call that raised, "" if none did
    attempt,           \* 1, or more when the caller repeats a failed store
    documents,         \* store_documents: documents
    dense_encoded,     \* store_documents: dense_encoded
    sparse_encoded,    \* store_documents: sparse_encoded
    dense_vectors,     \* store_documents: dense_vectors
    sparse_vectors,    \* store_documents: sparse_vectors
    upserts,           \* upsert calls made for the request, in order
    dense_index,       \* records held by the dense index
    sparse_index,      \* records held by the sparse index
    tasks              \* process_documents: one task per uploaded file

\* What a search request works on.
search_vars == <<dense_results, sparse_results, merged_results, rerank_rows>>

\* What a store request works on.
store_vars == <<documents, dense_encoded, sparse_encoded, dense_vectors,
                sparse_vectors, upserts>>

index_vars == <<dense_index, sparse_index>>

vars == <<pc, req, current_strategy, dense_results, sparse_results,
          merged_results, rerank_rows, calls, outcome, fault, attempt,
          documents, dense_encoded, sparse_encoded, dense_vectors,
          sparse_vectors, upserts, dense_index, sparse_index, tasks>>

NoRequest ==
    [entry |-> "", strategy |-> NoStrategy, search_strategy |-> NoStrategy,
     max_results |-> 0, apply_reranking |-> TRUE, top_k |-> DEFAULT_TOP_K]

Pending == [kind |-> "pending", results |-> <<>>, error |-> ""]

Ok(results) == [kind |-> "ok", results |-> results, error |-> ""]

Raised(error) == [kind |-> "error", results |-> <<>>, error |-> error]

Init ==
    /\ pc = "idle"
    /\ req = NoRequest
    /\ current_strategy = "hybrid"
    /\ dense_results = <<>>
    /\ sparse_results = <<>>
    /\ merged_results = <<>>
    /\ rerank_rows = <<>>
    /\ calls = <<>>
    /\ outcome = Pending
    /\ fault = ""
    /\ attempt = 1
    /\ documents = <<>>
    /\ dense_encoded = <<>>
    /\ sparse_encoded = <<>>
    /\ dense_vectors = <<>>
    /\ sparse_vectors = <<>>
    /\ upserts = <<>>
    /\ dense_index = {}
    /\ sparse_index = {}
    /\ tasks = <<>>

\* ------------------------------------------------------------- dispatch
\* PineconeClient.search_similar, lines 76-83: the strategy the query gets.
SelectStrategy(strategy, current) ==
    IF strategy # NoStrategy /\ strategy # ""
    THEN IF strategy \in SearchStrategyType THEN strategy ELSE current
    ELSE current

\* PineconeSearchRepository.search, lines 147-154: the first stage to run.
SearchDispatch(strategy) ==
    CASE strategy = "dense" -> "dense_search"
      [] strategy = "sparse" -> "sparse_search"
      [] strategy = "hybrid" -> "dense_search"
      [] OTHER -> "raise"

\* AfterDense falling through to the sparse search for every strategy.
AfterDense_FallsThrough(strategy) == "sparse_search"

\* The stage that follows _dense_search: return for a dense query, the
\* sparse search for hybrid_search (lines 276-277).
AfterDense(strategy) == IF strategy = "dense" THEN "done" ELSE "sparse_search"

\* The stage that follows _sparse_search (lines 277-280).
AfterSparse(strategy) == IF strategy = "sparse" THEN "done" ELSE "merge"

StartRequest(r, first, error) ==
    /\ req' = r
    /\ dense_results' = <<>>
    /\ sparse_results' = <<>>
    /\ merged_results' = <<>>
    /\ rerank_rows' = <<>>
    /\ calls' = <<>>
    /\ fault' = ""
    /\ IF first = "raise"
       THEN pc' = "done" /\ outcome' = Raised(error)
       ELSE pc' = first /\ outcome' = Pending
    /\ UNCHANGED <<tasks, attempt, store_vars, index_vars>>

\* OnExternalError with the exception caught and an empty result returned.
OnExternalError_Swallowed(call) == Ok(<<>>)

\* What the caller gets when an external call raises: no handler stands
\* between the call and the caller, the exception (named after the call
\* that raised it) goes through unchanged.
OnExternalError(call) == Raised(call)

\* --------------------------------------------------------------- actions
\* PineconeClient.set_search_strategy
SetSearchStrategy(strategy_name) ==
    /\ pc = "idle"
    /\ current_strategy' = IF strategy_name \in SearchStrategyType
                           THEN strategy_name ELSE current_strategy
    /\ UNCHANGED <<tasks, pc, req, search_vars, calls, outcome, fault, attempt,
                   store_vars, index_vars>>

\* PineconeClient.search_similar up to the first stage of repository.search
SearchSimilar(text_len, k, strategy) ==
    /\ pc = "idle"
    /\ LET search_strategy == SelectStrategy(strategy, current_strategy)
           r == [entry |-> "search_similar", strategy |-> strategy,
                 search_strategy |-> search_strategy, max_results |-> k,
                 apply_reranking |-> TRUE, top_k |-> DEFAULT_TOP_K]
       IN  IF SearchQueryValid(text_len, k, search_strategy)
           THEN StartRequest(r, SearchDispatch(search_strategy), "ValueError")
           ELSE StartRequest(r, "raise", "ValidationError")
    /\ UNCHANGED current_strategy

\* PineconeSearchRepository.search called with a SearchQuery
Search(max_results, strategy) ==
    /\ pc = "idle"
    /\ max_results >= MIN_MAX_RESULTS
    /\ max_results <= MAX_MAX_RESULTS
    /\ StartRequest([entry |-> "search", strategy |-> strategy,
                     search_strategy |-> strategy,
                     max_results |-> max_results,
                     apply_reranking |-> TRUE, top_k |-> DEFAULT_TOP_K],
                    SearchDispatch(strategy), "ValueError")
    /\ UNCHANGED current_strategy

\* PineconeSearchRepository.hybrid_search called directly
HybridSearch(max_results, apply_reranking) ==
    /\ pc = "idle"
    /\ max_results >= MIN_MAX_RESULTS
    /\ max_results <= MAX_MAX_RESULTS
    /\ StartRequest([entry |-> "hybrid_search", strategy |-> "hybrid",
                     search_strategy |-> "hybrid",
                     max_results |-> max_results,
                     apply_reranking |-> apply_reranking,
                     top_k |-> DEFAULT_TOP_K],
                    "dense_search", "")
    /\ UNCHANGED current_strategy

\* _dense_search: embed the query, query the dense index, convert
DenseSearch ==
    /\ pc = "dense_search"
    /\ \/ \E matches \in MatchLists(req.max_results) :
             /\ dense_results' = DenseResults(matches)
             /\ calls' = calls \o <<"embed_query", "dense_index.query">>
             /\ pc' = AfterDense(req.search_strategy)
             /\ outcome' = IF AfterDense(req.search_strategy) = "done"
                           THEN Ok(DenseResults(matches)) ELSE outcome
             /\ UNCHANGED fault
       \/ /\ calls' = Append(calls, "embed_query")
          /\ fault' = "embed_query"
          /\ pc' = "done"
          /\ outcome' = OnExternalError("embed_query")
          /\ UNCHANGED dense_results
       \/ /\ calls' = calls \o <<"embed_query", "dense_index.query">>
          /\ fault' = "dense_index.query"
          /\ pc' = "done"
          /\ outcome' = OnExternalError("dense_index.query")
          /\ UNCHANGED dense_results
    /\ UNCHANGED <<tasks, req, current_strategy, sparse_results, merged_results,
                   rerank_rows, attempt, store_vars, index_vars>>

\* _sparse_search: tokenize the query, query the sparse index, convert
SparseSearch ==
    /\ pc = "sparse_search"
    /\ \/ \E matches \in MatchLists(req.max_results) :
             /\ sparse_results' = SparseResults(matches)
             /\ calls' = calls \o <<"tokenizer", "sparse_index.query">>
             /\ pc' = AfterSparse(req.search_strategy)
             /\ outcome' = IF AfterSparse(req.search_strategy) = "done"
                           THEN Ok(SparseResults(matches)) ELSE outcome
             /\ UNCHANGED fault
       \/ /\ calls' = Append(calls, "tokenizer")
          /\ fault' = "tokenizer"
          /\ pc' = "done"
          /\ outcome' = OnExternalError("tokenizer")
          /\ UNCHANGED sparse_results
       \/ /\ calls' = calls \o <<"tokenizer", "sparse_index.query">>
          /\ fault' = "sparse_index.query"
          /\ pc' = "done"
          /\ outcome' = OnExternalError("sparse_index.query")
          /\ UNCHANGED sparse_results
    /\ UNCHANGED <<tasks, req, current_strategy, dense_results, merged_results,
                   rerank_rows, attempt, store_vars, index_vars>>

\* hybrid_search line 280
Merge ==
    /\ pc = "merge"
    /\ LET m == MergeHybridResults(dense_results, sparse_results)
       IN  IF m.error
           THEN /\ pc' = "done"
                /\ outcome' = Raised("TypeError")
                /\ UNCHANGED merged_results
           ELSE /\ pc' = "rerank"
                /\ merged_results' = m.results
                /\ UNCHANGED outcome
    /\ UNCHANGED <<tasks, req, current_strategy, dense_results, sparse_results,
                   rerank_rows, calls, fault, attempt, store_vars, index_vars>>

\* hybrid_search lines 287-291: rerank if requested, truncate, return.
\* Without reranking sorted_results was never assigned (UnboundLocalError).
Rerank ==
    /\ pc = "rerank"
    /\ IF req.apply_reranking
       THEN \E r \in RerankOutcomes(merged_results, req.top_k) :
               /\ rerank_rows' = r.rows
               /\ calls' = IF r.called
                           THEN Append(calls, "inference.rerank") ELSE calls
               /\ fault' = r.fault
               /\ outcome' = IF r.fault # ""
                             THEN OnExternalError(r.fault)
                             ELSE IF r.error # ""
                             THEN Raised(r.error)
                             ELSE Ok(Take(r.results, req.max_results))
       ELSE /\ outcome' = Raised("UnboundLocalError")
            /\ UNCHANGED <<rerank_rows, calls, fault>>
    /\ pc' = "done"
    /\ UNCHANGED <<tasks, req, current_strategy, dense_results, sparse_results,
                   merged_results, attempt, store_vars, index_vars>>

\* The caller has its answer; nothing of the request outlives it.
Return ==
    /\ pc = "done"
    /\ req.entry = "ask_question" => req.stage = "answered"
    /\ pc' = "idle"
    /\ req' = NoRequest
    /\ dense_results' = <<>>
    /\ sparse_results' = <<>>
    /\ merged_results' = <<>>
    /\ rerank_rows' = <<>>
    /\ calls' = <<>>
    /\ outcome' = Pending
    /\ fault' = ""
    /\ attempt' = 1
    /\ documents' = <<>>
    /\ dense_encoded' = <<>>
    /\ sparse_encoded' = <<>>
    /\ dense_vectors' = <<>>
    /\ sparse_vectors' = <<>>
    /\ upserts' = <<>>
    /\ tasks' = <<>>
    /\ UNCHANGED <<current_strategy, index_vars>>

\* A request of the ingestion side: the search fields keep their defaults.
StoreRequest(entry) ==
    [entry |-> entry, strategy |-> NoStrategy, search_strategy |-> NoStrategy,
     max_results |-> 0, apply_reranking |-> TRUE, top_k |-> DEFAULT_TOP_K]

\* store_documents with the early return on an empty list left out.
StoreEntry_NoEmptyCheck(docs) == "encode_dense"

\* store_documents lines 85-86: where the call goes first.
StoreEntry(docs) == IF docs = <<>> THEN "done" ELSE "encode_dense"

StartStore(entry, docs) ==
    /\ req' = StoreRequest(entry)
    /\ documents' = docs
    /\ pc' = StoreEntry(docs)
    /\ outcome' = IF StoreEntry(docs) = "done" THEN Ok(None) ELSE Pending
    /\ calls' = <<>>
    /\ upserts' = <<>>
    /\ fault' = ""
    /\ dense_encoded' = <<>>
    /\ sparse_encoded' = <<>>
    /\ dense_vectors' = <<>>
    /\ sparse_vectors' = <<>>
    /\ UNCHANGED <<tasks, current_strategy, search_vars, index_vars>>

\* PineconeClient.store_documents up to the first stage of
\* repository.store_documents
ClientStore(contents, file_name) ==
    /\ pc = "idle"
    /\ attempt' = 1
    /\ StartStore("client.store_documents", ClientChunks(contents, file_name))

\* PineconeSearchRepository.store_documents called with a list of chunks
RepoStore(docs) ==
    /\ pc = "idle"
    /\ attempt' = 1
    /\ StartStore("store_documents", docs)

\* The caller repeats a store call that failed, with the same chunks.
RetryStore ==
    /\ pc = "done"
    /\ req.entry \in {"client.store_documents", "store_documents"}
    /\ outcome.kind = "error"
    /\ attempt < MaxAttempts
    /\ attempt' = attempt + 1
    /\ StartStore(req.entry, documents)

\* store_documents line 92: await self.dense_encoder.encode_texts(texts)
EncodeDense ==
    /\ pc = "encode_dense"
    /\ calls' = Append(calls, "dense_encoder.encode_texts")
    /\ \/ \E k \in 0..Len(documents) :
             /\ dense_encoded' = DenseEncoded(documents, k)
             /\ pc' = "encode_sparse"
             /\ UNCHANGED <<fault, outcome>>
       \/ /\ fault' = "dense_encoder.encode_texts"
          /\ pc' = "done"
          /\ outcome' = OnExternalError("dense_encoder.encode_texts")
          /\ UNCHANGED dense_encoded
    /\ UNCHANGED <<tasks, req, current_strategy, search_vars, attempt, documents,
                   sparse_encoded, dense_vectors, sparse_vectors, upserts,
                   index_vars>>

\* store_documents line 93: await self.sparse_encoder.encode_texts(texts)
EncodeSparse ==
    /\ pc = "encode_sparse"
    /\ calls' = Append(calls, "sparse_encoder.encode_texts")
    /\ \/ /\ sparse_encoded' = SparseEncoded(documents)
          /\ pc' = "prepare"
          /\ UNCHANGED <<fault, outcome>>
       \/ /\ fault' = "sparse_encoder.encode_texts"
          /\ pc' = "done"
          /\ outcome' = OnExternalError("sparse_encoder.encode_texts")
          /\ UNCHANGED sparse_encoded
    /\ UNCHANGED <<tasks, req, current_strategy, search_vars, attempt, documents,
                   dense_encoded, dense_vectors, sparse_vectors, upserts,
                   index_vars>>

\* store_documents lines 96-119
Prepare ==
    /\ pc = "prepare"
    /\ LET r == PrepareVectors(documents, dense_encoded, sparse_encoded)
       IN  IF r.error # ""
           THEN /\ pc' = "done"
                /\ outcome' = Raised(r.error)
                /\ UNCHANGED <<dense_vectors, sparse_vectors>>
           ELSE /\ pc' = "upload_dense"
                /\ dense_vectors' = r.dense
                /\ sparse_vectors' = r.sparse
                /\ UNCHANGED outcome
    /\ UNCHANGED <<tasks, req, current_strategy, search_vars, calls, fault, attempt,
                   documents, dense_encoded, sparse_encoded, upserts,
                   index_vars>>

\* The upsert calls of one _upload_vectors_batch, as logged.
UpsertCalls(index_name, made) ==
    [k \in 1..Len(made) |-> [index |-> index_name, vectors |-> made[k]]]

\* store_documents line 122
UploadDense ==
    /\ pc = "upload_dense"
    /\ \E o \in UploadOutcomes(dense_vectors, dense_index, DEFAULT_BATCH_SIZE) :
          /\ upserts' = upserts \o UpsertCalls("dense", o.made)
          /\ dense_index' = o.index
          /\ IF o.failed # 0
             THEN /\ fault' = "dense_index.upsert"
                  /\ pc' = "done"
                  /\ outcome' = OnExternalError("dense_index.upsert")
             ELSE /\ pc' = "upload_sparse"
                  /\ UNCHANGED <<fault, outcome>>
    /\ UNCHANGED <<tasks, req, current_strategy, search_vars, calls, attempt,
                   documents, dense_encoded, sparse_encoded, dense_vectors,
                   sparse_vectors, sparse_index>>

\* store_documents line 123
UploadSparse ==
    /\ pc = "upload_sparse"
    /\ \E o \in UploadOutcomes(sparse_vectors, sparse_index, DEFAULT_BATCH_SIZE) :
          /\ upserts' = upserts \o UpsertCalls("sparse", o.made)
          /\ sparse_index' = o.index
          /\ pc' = "done"
          /\ IF o.failed # 0
             THEN /\ fault' = "sparse_index.upsert"
                  /\ outcome' = OnExternalError("sparse_index.upsert")
             ELSE /\ outcome' = Ok(None)
                  /\ UNCHANGED fault
    /\ UNCHANGED <<tasks, req, current_strategy, search_vars, calls, attempt,
                   documents, dense_encoded, sparse_encoded, dense_vectors,
                   sparse_vectors, dense_index>>

\* The n records of a list handed to _upload_vectors_batch.
VectorList(n) ==
    [i \in 1..n |-> [id |-> VectorId(i), values |-> <<"values", i>>]]

\* _upload_vectors_batch called with a list of n records and one of the two
\* indexes.
UploadVectorsBatch(n, index_name) ==
    /\ pc = "idle"
    /\ req' = StoreRequest("_upload_vectors_batch")
    /\ \E o \in UploadOutcomes(VectorList(n),
                               IF index_name = "dense" THEN dense_index
                               ELSE sparse_index,
                               DEFAULT_BATCH_SIZE) :
          /\ upserts' = UpsertCalls(index_name, o.made)
          /\ IF index_name = "dense"
             THEN dense_index' = o.index /\ UNCHANGED sparse_index
             ELSE sparse_index' = o.index /\ UNCHANGED dense_index
          /\ IF o.failed # 0
             THEN /\ fault' = index_name \o "_index.upsert"
                  /\ outcome' = OnExternalError(index_name \o "_index.upsert")
             ELSE /\ outcome' = Ok(None)
                  /\ UNCHANGED fault
    /\ dense_vectors' = IF index_name = "dense" THEN VectorList(n) ELSE <<>>
    /\ sparse_vectors' = IF index_name = "sparse" THEN VectorList(n) ELSE <<>>
    /\ pc' = "done"
    /\ UNCHANGED <<tasks, current_strategy, search_vars, calls, attempt, documents,
                   dense_encoded, sparse_encoded>>

Next ==
    \/ \E s \in StrategyInputs \ {NoStrategy} : SetSearchStrategy(s)
    \/ \E t \in TextLens, k \in KVals, s \in StrategyInputs :
          SearchSimilar(t, k, s)
    \/ \E k \in KVals, s \in SearchStrategyType \cup {"semantic"} :
          Search(k, s)
    \/ \E k \in KVals, b \in BOOLEAN : HybridSearch(k, b)
    \/ DenseSearch
    \/ SparseSearch
    \/ Merge
    \/ Rerank
    \/ \E contents \in ContentLists, f \in FileNames : ClientStore(contents, f)
    \/ \E docs \in ChunkLists : RepoStore(docs)
    \/ RetryStore
    \/ EncodeDense
    \/ EncodeSparse
    \/ Prepare
    \/ UploadDense
    \/ UploadSparse
    \/ Return

Spec == Init /\ [][Next]_vars

\* ------------------------------------------------------------ questions
MIN_QUESTION_LENGTH == 3
DEFAULT_MAX_DOCUMENTS == 5
QuestionResultFields == {"answer", "references"}

\* Python truthiness of an Optional[str]: None and "" are false.
TruthyStr(s) == s # NoStrategy /\ s # ""

\* _validate_question_request, lines 78-101: the message of the ValueError
\* it raises, "" when it raises none.
QuestionError(question_len, strategy, max_documents) ==
    IF question_len = 0 THEN "Question cannot be empty"
    ELSE IF question_len < MIN_QUESTION_LENGTH THEN "Question too short"
    ELSE IF question_len > MAX_TEXT_LENGTH THEN "Question is too long"
    ELSE IF TruthyStr(strategy) /\ strategy \notin SearchStrategyType
    THEN "Invalid search strategy"
    ELSE IF Truthy(max_documents)
            /\ (max_documents[1] < MIN_MAX_RESULTS
                \/ max_documents[1] > MAX_MAX_RESULTS)
    THEN "max_documents must be between 1 and 20"
    ELSE ""

\* request.search_strategy or "hybrid" (lines 45 and 105)
StrategyOrDefault(strategy) == IF TruthyStr(strategy) THEN strategy ELSE "hybrid"

\* request.max_documents or 5 (lines 46 and 106)
MaxDocumentsOrDefault(max_documents) ==
    IF Truthy(max_documents) THEN max_documents[1] ELSE DEFAULT_MAX_DOCUMENTS

\* QuestionController.ask_question up to the first stage of the search that
\* QuestionAnsweringService.answer_question starts through
\* PineconeClient.search_similar.
AskQuestion(question_len, strategy, max_documents) ==
    /\ pc = "idle"
    /\ LET forwarded == StrategyOrDefault(strategy)
           k == MaxDocumentsOrDefault(max_documents)
           search_strategy == SelectStrategy(forwarded, current_strategy)
           r == [entry |-> "ask_question", strategy |-> forwarded,
                 search_strategy |-> search_strategy, max_results |-> k,
                 apply_reranking |-> TRUE, top_k |-> DEFAULT_TOP_K,
                 question_len |-> question_len, asked_strategy |-> strategy,
                 asked_max_documents |-> max_documents, stage |-> "search"]
       IN  IF QuestionError(question_len, strategy, max_documents) # ""
           THEN StartRequest([r EXCEPT !.stage = "answered"], "raise",
                             "HTTPException 400")
           ELSE IF SearchQueryValid(question_len, k, search_strategy)
           THEN StartRequest(r, SearchDispatch(search_strategy), "ValueError")
           ELSE StartRequest(r, "raise", "ValidationError")
    /\ UNCHANGED current_strategy

\* The rest of answer_question (lines 52-75, every exception of the search
\* caught) and of ask_question (lines 49-63): the log line reads
\* result.search_strategy, which QuestionResult does not declare.
AnswerQuestion ==
    /\ pc = "done"
    /\ req.entry = "ask_question"
    /\ req.stage = "search"
    /\ req' = [req EXCEPT !.stage = "answered"]
    /\ calls' = IF outcome.kind = "ok" /\ outcome.results # <<>>
                THEN Append(calls, "rag_chain.generate_answer") ELSE calls
    /\ outcome' = IF "search_strategy" \in QuestionResultFields
                  THEN Ok(<<>>) ELSE Raised("HTTPException 500")
    /\ UNCHANGED <<tasks, pc, current_strategy, search_vars, fault, attempt,
                   store_vars, index_vars>>

\* Question requests on their own, with the search they start.
AskNext ==
    \/ \E q \in QuestionLens, s \in StrategyInputs, m \in MaxDocumentsInputs :
          AskQuestion(q, s, m)
    \/ DenseSearch
    \/ SparseSearch
    \/ Merge
    \/ Rerank
    \/ AnswerQuestion
    \/ Return

AskSpec == Init /\ [][AskNext]_vars

\* SearchQuery(text=..., max_results=..., strategy=...): the model is
\* constructed, or pydantic raises ValidationError.
ConstructSearchQuery(text_len, max_results, strategy) ==
    /\ pc = "idle"
    /\ req' = [entry |-> "SearchQuery", text_len |-> text_len,
               strategy |-> strategy, search_strategy |-> strategy,
               max_results |-> max_results, apply_reranking |-> TRUE,
               top_k |-> DEFAULT_TOP_K]
    /\ outcome' = IF SearchQueryValid(text_len, max_results, strategy)
                  THEN Ok(<<>>) ELSE Raised("ValidationError")
    /\ pc' = "done"
    /\ UNCHANGED <<tasks, current_strategy, search_vars, calls, fault, attempt,
                   store_vars, index_vars>>

\* The constructor of SearchQuery on its own, called with every input.
QueryNext ==
    \/ \E t \in QueryTextLens, k \in QueryMaxResults, s \in QueryStrategies :
          ConstructSearchQuery(t, k, s)
    \/ Return

QuerySpec == Init /\ [][QueryNext]_vars

\* _upload_vectors_batch on its own, called with lists of every size.
UploadNext ==
    \/ \E n \in VectorCounts, index_name \in {"dense", "sparse"} :
          UploadVectorsBatch(n, index_name)
    \/ Return

UploadSpec == Init /\ [][UploadNext]_vars

\* ----------------------------------------------------- many candidates
\* What the dense index may answer to a query for max_results matches when
\* it holds up to MaxCandidates chunks: chunks 1..n with any scores.
CandidateLists(max_results) ==
    UNION {[1..n -> {40, 90}] : n \in 0..Min(MaxCandidates, max_results)}

\* search() on a hybrid query, lines 151-152 and 247-280: the dense index
\* answers the given candidates, the sparse index none, and they are merged.
HybridCandidates(max_results, scores) ==
    /\ pc = "idle"
    /\ LET found == DenseResults([i \in 1..Len(scores) |-> <<i, scores[i]>>])
       IN  /\ dense_results' = found
           /\ sparse_results' = <<>>
           /\ merged_results' = MergeHybridResults(found, <<>>).results
    /\ req' = [entry |-> "search", strategy |-> "hybrid",
               search_strategy |-> "hybrid", max_results |-> max_results,
               apply_reranking |-> TRUE, top_k |-> DEFAULT_TOP_K]
    /\ calls' = <<"embed_query", "dense_index.query", "tokenizer",
                  "sparse_index.query">>
    /\ pc' = "rerank"
    /\ UNCHANGED <<tasks, current_strategy, rerank_rows, outcome, fault,
                   attempt, store_vars, index_vars>>

\* Hybrid searches over many candidates on their own.
CandidateNext ==
    \/ \E k \in {1, 5, 6, 20} : \E scores \in CandidateLists(k) :
          HybridCandidates(k, scores)
    \/ Rerank
    \/ Return

CandidateSpec == Init /\ [][CandidateNext]_vars

\* ------------------------------------------------------------ documents
\* The texts the splitter made of a file: n chunks.
FileTexts(n) == [i \in 1..n |-> 1]

\* The uploads process_documents may be called with: for every file the
\* number of chunks its text is split into.
FileLists == UNION {[1..m -> 0..MaxChunks] : m \in 0..NumFiles}

\* How the two uploads of store_documents can end for prepared vectors: ""
\* when both return, else the upsert that raised.
UploadResults(v) ==
    {""} \cup (IF v.dense # <<>> THEN {"dense_index.upsert"} ELSE {})
         \cup (IF v.sparse # <<>> THEN {"sparse_index.upsert"} ELSE {})

\* How PineconeClient.store_documents can end for a list of chunks: "" when
\* it returns, else the error it raises.
StoreResults(docs) ==
    IF StoreEntry(docs) = "done" THEN {""}
    ELSE {"dense_encoder.encode_texts", "sparse_encoder.encode_texts"}
         \cup UNION {LET v == PrepareVectors(docs, DenseEncoded(docs, k),
                                             SparseEncoded(docs))
                     IN  IF v.error # "" THEN {v.error} ELSE UploadResults(v) :
                       k \in 0..Len(docs)}

\* The files whose task returned its list of chunks.
Succeeded(ts) == {i \in 1..Len(ts) : ts[i].result = "ok"}

RECURSIVE TotalChunks(_)
TotalChunks(ts) ==
    IF ts = <<>> THEN 0
    ELSE (IF Head(ts).result = "ok" THEN Head(ts).chunks ELSE 0)
            + TotalChunks(Tail(ts))

\* process_documents with gather raising the first exception of a task.
GatherResult_Raises(ts) ==
    IF Succeeded(ts) # 1..Len(ts)
    THEN Raised(ts[CHOOSE i \in 1..Len(ts) \ Succeeded(ts) :
                      \A j \in 1..Len(ts) \ Succeeded(ts) : i <= j].result)
    ELSE Ok([documents_indexed |-> Len(ts), total_chunks |-> TotalChunks(ts)])

\* process_documents lines 148-162: gather(return_exceptions=True), then
\* the count of the results that are no exception and the sum of their
\* lengths.
GatherResult(ts) ==
    Ok([documents_indexed |-> Cardinality(Succeeded(ts)),
        total_chunks |-> TotalChunks(ts)])

\* process_documents line 145: one task per file is created.
ProcessDocuments(files) ==
    /\ pc = "idle"
    /\ req' = StoreRequest("process_documents")
    /\ tasks' = [i \in 1..Len(files) |->
                    [file_name |-> i, chunks |-> files[i], stage |-> "read",
                     result |-> "pending"]]
    /\ pc' = "gather"
    /\ UNCHANGED <<current_strategy, search_vars, calls, outcome, fault,
                   attempt, store_vars, index_vars>>

\* _process_file line 175: await file.read(), where the task is suspended;
\* reading may raise.
FileRead(i) ==
    /\ pc = "gather"
    /\ i \in 1..Len(tasks)
    /\ tasks[i].stage = "read"
    /\ \/ tasks' = [tasks EXCEPT ![i].stage = "process"]
       \/ tasks' = [tasks EXCEPT ![i].stage = "done", ![i].result = "file.read"]
    /\ UNCHANGED <<pc, req, current_strategy, search_vars, calls, outcome,
                   fault, attempt, store_vars, index_vars>>

\* _process_file lines 178-215: text extraction, splitting and the store
\* call, which run without suspension; the task returns the chunks or
\* raises what store_documents raised.
FileProcess(i) ==
    /\ pc = "gather"
    /\ i \in 1..Len(tasks)
    /\ tasks[i].stage = "process"
    /\ \E r \in StoreResults(ClientChunks(FileTexts(tasks[i].chunks),
                                          tasks[i].file_name)) :
          tasks' = [tasks EXCEPT ![i].stage = "done",
                                 ![i].result = IF r = "" THEN "ok" ELSE r]
    /\ UNCHANGED <<pc, req, current_strategy, search_vars, calls, outcome,
                   fault, attempt, store_vars, index_vars>>

\* process_documents lines 148-162, once every task has ended.
Gather ==
    /\ pc = "gather"
    /\ \A i \in 1..Len(tasks) : tasks[i].stage = "done"
    /\ outcome' = GatherResult(tasks)
    /\ pc' = "done"
    /\ UNCHANGED <<tasks, req, current_strategy, search_vars, calls, fault,
                   attempt, store_vars, index_vars>>

\* Document uploads on their own.
ProcessNext ==
    \/ \E files \in FileLists : ProcessDocuments(files)
    \/ \E i \in 1..NumFiles : FileRead(i)
    \/ \E i \in 1..NumFiles : FileProcess(i)
    \/ Gather
    \/ Return

ProcessSpec == Init /\ [][ProcessNext]_vars

\* ================================================================= claims
Max(a, b) == IF a > b THEN a ELSE b

\* hybrid_search has merged dense_results and sparse_results without error.
MergeReturned == pc = "rerank"

RecordOf(results, doc_id) == results[PosOf(results, doc_id)]

\* Pairs (i, j): dense_results[i] and sparse_results[j] are the same chunk.
InBoth ==
    {p \in (1..Len(dense_results)) \X (1..Len(sparse_results)) :
        dense_results[p[1]].document.id = sparse_results[p[2]].document.id}

\* C1: when _merge_hybrid_results returns, the merged record of every chunk
\* found by both searches has as combined_score the larger of its dense and
\* its sparse score (one of the two inputs, never a sum or an average).
C1_CombinedIsLargerScore ==
    MergeReturned =>
        \A p \in InBoth :
            LET d == dense_results[p[1]].score.dense_score[1]
                sp == sparse_results[p[2]].score.sparse_score[1]
                rec == RecordOf(merged_results, dense_results[p[1]].document.id)
            IN  rec.score.combined_score = Some(Max(d, sp))

\* C1 witness: a chunk found by both searches, the sparse score the larger,
\* has been merged.
C1_Witness ==
    /\ MergeReturned
    /\ \E p \in InBoth :
          dense_results[p[1]].score.dense_score[1]
              < sparse_results[p[2]].score.sparse_score[1]

\* C2: the merged record of every chunk found by both searches carries the
\* chunk's dense_score and its sparse_score, neither empty, next to
\* combined_score.
C2_BothScoresKept ==
    MergeReturned =>
        \A p \in InBoth :
            LET rec == RecordOf(merged_results, dense_results[p[1]].document.id)
            IN  /\ rec.score.dense_score = dense_results[p[1]].score.dense_score
                /\ rec.score.sparse_score = sparse_results[p[2]].score.sparse_score
                /\ rec.score.combined_score # None

\* C3: when _merge_hybrid_results returns, its output has every chunk id at
\* most once and its chunk ids are the union of those of the two inputs.
C3_MergedIdsAreTheUnionOnce ==
    MergeReturned =>
        /\ \A i, j \in 1..Len(merged_results) :
              i # j => merged_results[i].document.id # merged_results[j].document.id
        /\ IdsOf(merged_results) = IdsOf(dense_results) \cup IdsOf(sparse_results)

\* C3 witness: a merge of one chunk found by both searches and one chunk
\* found by a single search.
C3_Witness ==
    /\ MergeReturned
    /\ InBoth # {}
    /\ IdsOf(dense_results) # IdsOf(sparse_results)
    /\ Len(merged_results) = 2

\* A hybrid search with reranking on has come to its end, and no external
\* call of it raised.
RerankedHybridDone ==
    /\ pc = "done"
    /\ req.search_strategy = "hybrid"
    /\ req.apply_reranking
    /\ fault = ""

\* The rows above the relevance threshold, in the order the reranker gave.
Survivors(rows) == SelectSeq(rows, LAMBDA row : row[2] > SCORE_THRESHOLD)

\* The (chunk id, rerank score) pairs of a list of reranked results.
RowsOf(results) ==
    [i \in 1..Len(results) |-> <<results[i].document.id, results[i].score.score>>]

\* C4: rerank_results, given candidates, returns exactly the candidates the
\* reranker scored strictly above 0.7: it returns (it does not raise), every
\* row above 0.7 is in its output and no row at or below 0.7 is.
C4_KeepsExactlyAboveThreshold ==
    (pc = "rerank" /\ req.apply_reranking /\ merged_results # <<>>) =>
        \A o \in RerankOutcomes(merged_results, req.top_k) :
            o.fault = "" =>
                /\ o.error = ""
                /\ o.called
                /\ RowsOf(o.results) = Survivors(o.rows)

\* C5: a hybrid search over a non-empty merged set returns a list of at most
\* query.max_results results, the first of the threshold survivors in the
\* reranker's order.
C5_PrefixInRerankerOrder ==
    (RerankedHybridDone /\ merged_results # <<>>) =>
        /\ outcome.kind = "ok"
        /\ Len(outcome.results) <= req.max_results
        /\ RowsOf(outcome.results) = Take(Survivors(rerank_rows), req.max_results)

\* C6: a hybrid search over a non-empty merged set returns results whose
\* score object holds the rerank score alone, with no dense_score,
\* sparse_score or combined_score of the merge stage.
C6_OnlyRerankScore ==
    (RerankedHybridDone /\ merged_results # <<>>) =>
        /\ outcome.kind = "ok"
        /\ \A i \in 1..Len(outcome.results) :
              /\ outcome.results[i].score.kind = "RerankedSearchScore"
              /\ DOMAIN outcome.results[i].score = {"kind", "score"}

\* C7: every result carries the label of the last stage applied to it:
\* every merged record of a hybrid search is labelled hybrid, and every
\* result returned is labelled with the strategy of the query (dense for a
\* dense query, sparse for a sparse query, hybrid for a hybrid query).
C7_StrategyUsedIsLastStage ==
    /\ \A i \in 1..Len(merged_results) :
          merged_results[i].strategy_used = "hybrid"
    /\ (pc = "done" /\ outcome.kind = "ok") =>
          \A i \in 1..Len(outcome.results) :
              outcome.results[i].strategy_used = req.search_strategy

\* C7 witness: a sparse query has returned results.
C7_Witness ==
    /\ pc = "done"
    /\ req.search_strategy = "sparse"
    /\ outcome.kind = "ok"
    /\ outcome.results # <<>>

Called(name) == \E i \in 1..Len(calls) : calls[i] = name

\* C8: a dense search makes no sparse index query and no tokenizer call, a
\* sparse search makes no dense index query and no embedding call; only a
\* hybrid search touches both indexes.
C8_StrategyIsolation ==
    /\ req.search_strategy = "dense" =>
          ~Called("sparse_index.query") /\ ~Called("tokenizer")
    /\ req.search_strategy = "sparse" =>
          ~Called("dense_index.query") /\ ~Called("embed_query")
    /\ (Called("dense_index.query") /\ Called("sparse_index.query")) =>
          req.search_strategy = "hybrid"

\* C8 witness: a dense search has returned, having queried the dense index.
C8_Witness ==
    /\ pc = "done"
    /\ req.search_strategy = "dense"
    /\ outcome.kind = "ok"
    /\ calls = <<"embed_query", "dense_index.query">>

\* The request names a strategy, and not one of dense, sparse, hybrid.
UnsupportedStrategyRequested ==
    /\ pc # "idle"
    /\ req.strategy \notin SearchStrategyType \cup {NoStrategy, ""}

\* C9: on every entry point, a search requested with a strategy other than
\* dense, sparse or hybrid runs no search under another strategy (it makes
\* no external call) and ends in an error.
C9_UnsupportedStrategyIsAnError ==
    UnsupportedStrategyRequested =>
        /\ calls = <<>>
        /\ pc = "done" => outcome.kind = "error"

\* C10: when the dense and the sparse search of a hybrid query both return
\* no matches, hybrid_search (reranking on) returns an empty list and the
\* reranker is never called.
C10_EmptyMergeSkipsRerank ==
    (RerankedHybridDone /\ Called("sparse_index.query")
        /\ dense_results = <<>> /\ sparse_results = <<>>) =>
        /\ outcome = Ok(<<>>)
        /\ ~Called("inference.rerank")

\* C10 witness: such a hybrid search has returned.
C10_Witness ==
    /\ RerankedHybridDone
    /\ calls = <<"embed_query", "dense_index.query", "tokenizer",
                 "sparse_index.query">>
    /\ dense_results = <<>>
    /\ sparse_results = <<>>
    /\ outcome.kind = "ok"

\* C11: when the merged set is not empty and every reranked candidate scores
\* at or below 0.7, hybrid_search completes normally and returns an empty
\* list (no error, no fallback to the merged ranking).
C11_AllBelowThresholdReturnsEmpty ==
    (RerankedHybridDone /\ merged_results # <<>>
        /\ Survivors(rerank_rows) = <<>>) =>
        outcome = Ok(<<>>)

\* The entry points of a store call.
StoreEntries == {"client.store_documents", "store_documents"}

\* C12: store_documents called with an empty list is a no-op: it returns
\* without error, has called no encoder, has made no upsert and leaves both
\* indexes as they were.
C12_EmptyStoreIsNoOp ==
    [][(pc = "idle" /\ req'.entry \in StoreEntries /\ documents' = <<>>) =>
          /\ pc' = "done"
          /\ outcome' = Ok(None)
          /\ calls' = <<>>
          /\ upserts' = <<>>
          /\ UNCHANGED index_vars]_vars

\* C12 witness: a store call with an empty list has returned.
C12_Witness ==
    /\ pc = "done"
    /\ req.entry \in StoreEntries
    /\ documents = <<>>
    /\ outcome.kind = "ok"

\* C13: any two chunks of a store call with identical content get the same
\* derived identity (so that the second upsert overwrites the first and one
\* logical record per content is left in each index).
C13_SameContentSameId ==
    req.entry \in StoreEntries =>
        \A i, j \in 1..Len(documents) :
            documents[i].content = documents[j].content =>
                GenerateDocumentId(documents[i]) = GenerateDocumentId(documents[j])

\* The records of the upsert calls made on one index, in submission order.
RECURSIVE Submitted(_, _)
Submitted(log, index_name) ==
    IF log = <<>> THEN <<>>
    ELSE (IF Head(log).index = index_name THEN Head(log).vectors ELSE <<>>)
            \o Submitted(Tail(log), index_name)

\* A store call has returned without error.
StoreReturned ==
    /\ pc = "done"
    /\ req.entry \in StoreEntries
    /\ outcome.kind = "ok"

\* C14: when store_documents returns successfully for n chunks, exactly n
\* records were submitted to each index, the i-th of them carrying the id
\* and the vector of the i-th chunk, the same id in both indexes; no chunk
\* is dropped without an error.
C14_EveryChunkSubmitted ==
    StoreReturned =>
        LET dense == Submitted(upserts, "dense")
            sparse == Submitted(upserts, "sparse")
        IN  /\ Len(dense) = Len(documents)
            /\ Len(sparse) = Len(documents)
            /\ \A i \in 1..Len(documents) :
                  /\ dense[i].id = GenerateDocumentId(documents[i])
                  /\ sparse[i].id = dense[i].id
                  /\ dense[i].values = <<"dense", documents[i].content>>
                  /\ sparse[i].values = <<"sparse", documents[i].content>>

\* C15: a store call for chunks built by PineconeClient.store_documents
\* completes without error, and the metadata stored with the dense and with
\* the sparse record of every chunk holds the chunk's content, file_name and
\* chunk_index (its position in the document) and the caller's metadata.
C15_StoredMetadataComplete ==
    (pc = "done" /\ req.entry = "client.store_documents"
        /\ documents # <<>> /\ fault = "") =>
        LET dense == Submitted(upserts, "dense")
            sparse == Submitted(upserts, "sparse")
        IN  /\ outcome.kind = "ok"
            /\ Len(dense) = Len(documents)
            /\ Len(sparse) = Len(documents)
            /\ \A i \in 1..Len(documents) :
                  /\ dense[i].metadata.chunk_text = documents[i].content
                  /\ dense[i].metadata.file_name = documents[i].file_name
                  /\ dense[i].metadata.chunk_index = i - 1
                  /\ dense[i].metadata.caller = documents[i].metadata
                  /\ sparse[i].metadata = dense[i].metadata

\* The two encoder calls of store_documents.
EncoderCalls == {"dense_encoder.encode_texts", "sparse_encoder.encode_texts"}

\* C16: when the dense or the sparse encoder fails while store_documents is
\* encoding, the store call ends there with that error, and no record has
\* been upserted: the upsert log of the call is empty and both indexes are
\* unchanged.
C16_EncoderFailureFailsStore ==
    [][(fault = "" /\ fault' \in EncoderCalls) =>
          /\ pc' = "done"
          /\ outcome' = Raised(fault')
          /\ upserts' = <<>>
          /\ UNCHANGED index_vars]_vars

\* C16 witness: a store call has ended on the failure of the sparse encoder,
\* after the dense encoder had answered.
C16_Witness ==
    /\ pc = "done"
    /\ req.entry \in StoreEntries
    /\ fault = "sparse_encoder.encode_texts"
    /\ dense_encoded # <<>>
    /\ outcome.kind = "error"

\* ceil(n / d)
CeilDiv(n, d) == IF n % d = 0 THEN n \div d ELSE n \div d + 1

\* A direct call of _upload_vectors_batch has ended with no upsert failing.
UploadReturned ==
    /\ pc = "done"
    /\ req.entry = "_upload_vectors_batch"
    /\ fault = ""

\* The list that call was given.
UploadedList == dense_vectors \o sparse_vectors

\* C17: _upload_vectors_batch splits a list of n records into ceil(n/100)
\* upsert calls of at most 100 records each, which taken together are the
\* input list: every record in exactly one call, in input order (no call
\* for an empty list).
C17_BatchesPartitionTheList ==
    UploadReturned =>
        /\ Len(upserts) = CeilDiv(Len(UploadedList), DEFAULT_BATCH_SIZE)
        /\ \A k \in 1..Len(upserts) :
              /\ Len(upserts[k].vectors) <= DEFAULT_BATCH_SIZE
              /\ Len(upserts[k].vectors) > 0
        /\ Submitted(upserts, "dense") \o Submitted(upserts, "sparse") = UploadedList

\* C17 witness: a list of more than two full batches has been uploaded in
\* three calls, the last one short.
C17_Witness ==
    /\ UploadReturned
    /\ Len(UploadedList) > 2 * DEFAULT_BATCH_SIZE
    /\ Len(upserts) = 3
    /\ Len(upserts[3].vectors) < DEFAULT_BATCH_SIZE

\* C18: upsert batches are independent: when the upsert of one batch fails,
\* the other batches of the call are still submitted, so that every record
\* of the list has been handed to an upsert call.
C18_FailedBatchStopsNoOther ==
    (pc = "done" /\ req.entry = "_upload_vectors_batch" /\ fault # "") =>
        /\ Len(upserts) = CeilDiv(Len(UploadedList), DEFAULT_BATCH_SIZE)
        /\ Submitted(upserts, "dense") \o Submitted(upserts, "sparse") = UploadedList

\* The records an index holds under the identity of a chunk.
RecordsOf(index, doc) == {r \in index : r.id = GenerateDocumentId(doc)}

\* C19: after a store call that failed and a successful retry with the same
\* chunks, each index holds exactly one record per chunk id, as after one
\* successful store of those chunks.
C19_RetryLeavesOneRecordPerChunk ==
    (StoreReturned /\ attempt > 1) =>
        \A i \in 1..Len(documents) :
            /\ Cardinality(RecordsOf(dense_index, documents[i])) = 1
            /\ Cardinality(RecordsOf(sparse_index, documents[i])) = 1

\* C20: a failure of an encoder call, an index query, an index upsert or the
\* rerank call inside store_documents or search ends the request, and the
\* caller gets that same error: never a result, empty or partial.
C20_ExternalFailureReachesCaller ==
    fault # "" =>
        /\ pc = "done"
        /\ outcome = Raised(fault)
        /\ outcome.results = <<>>

\* C20 witness: a hybrid search whose dense search had found candidates has
\* ended on the failure of the sparse index query.
C20_Witness ==
    /\ pc = "done"
    /\ req.search_strategy = "hybrid"
    /\ dense_results # <<>>
    /\ fault = "sparse_index.query"
    /\ outcome.kind = "error"

\* A SearchQuery constructor call has ended.
QueryConstructed == pc = "done" /\ req.entry = "SearchQuery"

\* C21: constructing a SearchQuery succeeds exactly when max_results is in
\* 1..20 and text has 1..1000 characters (the strategy being one of the
\* enumeration): 0 and 21 are rejected, 1 and 20 are accepted.
C21_QueryBounds ==
    (QueryConstructed /\ req.strategy \in SearchStrategyType) =>
        (outcome.kind = "ok" <=>
            /\ req.max_results \in 1..20
            /\ req.text_len \in 1..1000)

\* C21 witness: a query asking for 20 results of a 1000 character text has
\* been constructed.
C21_Witness ==
    /\ QueryConstructed
    /\ req.max_results = 20
    /\ req.text_len = 1000
    /\ outcome.kind = "ok"

\* A question request with a strategy name outside the enumeration, a
\* question text outside the length bounds or a document count outside 1..20.
BadQuestionRequest ==
    /\ req.entry = "ask_question"
    /\ \/ req.asked_strategy \notin SearchStrategyType \cup {NoStrategy}
       \/ req.question_len \notin 1..1000
       \/ /\ req.asked_max_documents # None
          /\ req.asked_max_documents[1] \notin 1..20

\* C22: such a request is rejected as a client error before any embedding,
\* index or rerank call is made; it never reaches the search with a default
\* value put in place of the bad one.
C22_BadRequestRejectedBeforeSearch ==
    BadQuestionRequest =>
        /\ calls = <<>>
        /\ pc = "done"
        /\ outcome = Raised("HTTPException 400")

\* A hybrid search is under way.
HybridUnderWay == req.search_strategy = "hybrid" /\ pc # "idle" /\ pc # "done"

\* C23: in hybrid_search the dense and the sparse query are issued
\* concurrently and joined before merging: while the dense query has not
\* returned the sparse query can be issued, and the merge step starts only
\* after both queries have completed.
C23_QueriesIssuedConcurrently ==
    /\ (HybridUnderWay /\ pc = "dense_search") => ENABLED SparseSearch
    /\ (HybridUnderWay /\ pc = "merge") =>
          Called("dense_index.query") /\ Called("sparse_index.query")

\* The score a candidate was found with: its dense_score when it has one
\* (whatever its value), its sparse_score otherwise.
PresentScore(score) ==
    IF score.dense_score # None THEN score.dense_score ELSE score.sparse_score

\* C24: merging any dense and sparse result lists completes without error,
\* also when a native score is 0, and every merged record has a number as
\* combined_score: the dense_score where one is present, the sparse_score
\* otherwise.
C24_OriginalScoreIsPresentScore ==
    /\ outcome.error # "TypeError"
    /\ MergeReturned =>
          \A i \in 1..Len(merged_results) :
              /\ merged_results[i].score.combined_score # None
              /\ merged_results[i].score.combined_score =
                     PresentScore(merged_results[i].score)

\* C25: in the merge the entry recorded for a chunk is replaced only by a
\* candidate whose original score is strictly larger; dense results come
\* first, so for a chunk found by both searches the entry built from the
\* dense result is kept unless the sparse score is strictly larger, and is
\* kept when the two scores are equal.
C25_TieKeepsDenseEntry ==
    MergeReturned =>
        \A p \in InBoth :
            LET d == dense_results[p[1]].score
                sp == sparse_results[p[2]].score
                rec == RecordOf(merged_results, dense_results[p[1]].document.id)
            IN  IF sp.sparse_score[1] > d.dense_score[1]
                THEN /\ rec.score.dense_score = None
                     /\ rec.score.sparse_score = sp.sparse_score
                ELSE /\ rec.score.dense_score = d.dense_score
                     /\ rec.score.sparse_score = None

\* C25 witness: a chunk found by both searches with equal scores has been
\* merged.
C25_Witness ==
    /\ MergeReturned
    /\ \E p \in InBoth :
          dense_results[p[1]].score.dense_score =
              sparse_results[p[2]].score.sparse_score

\* C26: hybrid_search called with apply_reranking=False completes without
\* error and returns the merged results truncated to query.max_results,
\* without calling the reranker.
C26_RerankingIsOptional ==
    (pc = "done" /\ req.entry = "hybrid_search" /\ ~req.apply_reranking
        /\ fault = "" /\ outcome.error # "TypeError") =>
        /\ outcome = Ok(Take(merged_results, req.max_results))
        /\ ~Called("inference.rerank")

\* The sum of the chunk counts of the tasks numbered in S.
RECURSIVE ChunkSum(_)
ChunkSum(S) ==
    IF S = {} THEN 0
    ELSE LET i == CHOOSE x \in S : TRUE
         IN  tasks[i].chunks + ChunkSum(S \ {i})

\* The tasks that returned, the others having raised.
NotRaised == {i \in 1..Len(tasks) : tasks[i].result = "ok"}

\* C27: process_documents runs the files as tasks and isolates their
\* failures: whatever the interleaving, when it ends every file has been
\* processed to its end, it returns (it does not raise), documents_indexed
\* is the number of files whose processing did not raise and total_chunks
\* the sum of the chunk counts of exactly those files.
C27_FileFailuresAreIsolated ==
    (pc = "done" /\ req.entry = "process_documents") =>
        /\ \A i \in 1..Len(tasks) : tasks[i].stage = "done"
        /\ outcome.kind = "ok"
        /\ outcome.results.documents_indexed = Cardinality(NotRaised)
        /\ outcome.results.total_chunks = ChunkSum(NotRaised)

\* C27 witness: an upload of two files has ended, the first file having
\* raised and the second not.
C27_Witness ==
    /\ pc = "done"
    /\ req.entry = "process_documents"
    /\ Len(tasks) = 2
    /\ tasks[1].result \notin {"ok", "pending"}
    /\ tasks[2].result = "ok"
    /\ tasks[2].chunks > 0

IdsIn(index) == {r.id : r \in index}

\* A PineconeClient.store_documents call has ended and no external call of
\* it failed.
ClientStoreEnded ==
    /\ pc = "done"
    /\ req.entry = "client.store_documents"
    /\ fault = ""

\* C29: no operation removes a record from either index, and after
\* PineconeClient.store_documents stored a file of n chunks both indexes
\* hold the records '<file_name>_0' .. '<file_name>_<n-1>'; so the records
\* m..n-1 of a file are still present after a shorter version (m < n
\* chunks) of the same name was stored.
C29_EarlierRecordsStayPresent ==
    /\ [](ClientStoreEnded =>
            \A i \in 1..Len(documents) :
                /\ FileChunkId(documents[i].file_name, i - 1) \in IdsIn(dense_index)
                /\ FileChunkId(documents[i].file_name, i - 1) \in IdsIn(sparse_index))
    /\ [][/\ IdsIn(dense_index) \subseteq IdsIn(dense_index')
          /\ IdsIn(sparse_index) \subseteq IdsIn(sparse_index')]_vars

\* The ids of the records of a list.
IdsOfRecords(records) == {records[i].id : i \in 1..Len(records)}

\* C30: store_documents upserts every dense batch before the first sparse
\* batch and rolls nothing back: at every point of a store call the ids
\* written to the sparse index are among those written to the dense index,
\* no dense upsert follows a sparse one, what was written stays in the
\* index, and a call in which no upsert failed has upserted the dense
\* record of every chunk.
C30_DenseBatchesBeforeSparse ==
    req.entry \in StoreEntries =>
        /\ IdsOfRecords(Submitted(upserts, "sparse"))
              \subseteq IdsOfRecords(Submitted(upserts, "dense"))
        /\ \A a, b \in 1..Len(upserts) :
              (a < b /\ upserts[a].index = "sparse") => upserts[b].index = "sparse"
        /\ (fault \notin {"dense_index.upsert", "sparse_index.upsert"}) =>
              /\ IdsOfRecords(Submitted(upserts, "dense")) \subseteq IdsIn(dense_index)
              /\ IdsOfRecords(Submitted(upserts, "sparse")) \subseteq IdsIn(sparse_index)
        /\ (pc = "done" /\ fault = "") =>
              Len(Submitted(upserts, "dense")) = Len(documents)

====
